---- MODULE Spec2Model ----
(***************************************************************************)
(* RabbitMQ state modules (rabbitmq_exchange, rabbitmq_queue,              *)
(* rabbitmq_binding) and the client module rabbitmq_extended they call.    *)
(*                                                                         *)
(* Python values are represented as follows.                               *)
(*   - text that is searched or split (CLI output, dict keys of            *)
(*     _format_response) is a sequence of one-character strings;           *)
(*   - entity names, vhosts, routing keys and properties keys, which the   *)
(*     code only compares for equality, are TLA+ strings;                  *)
(*   - a dict is the set of its <<key, value>> pairs;                      *)
(*   - the value returned by an existence query is a tagged record         *)
(*     (PyBool, PyStr, PyNone) so that Python truthiness can be computed.  *)
(***************************************************************************)
EXTENDS Integers, Sequences, FiniteSets, TLC

VARIABLES
    exchanges,   \* broker: set of [vhost, name] of the declared exchanges
    queues,      \* broker: set of [vhost, name] of the declared queues
    bindings,    \* broker: sequence (listing order) of binding records
    test,        \* __opts__['test'], the dry-run flag of the run
    pc,          \* position of the running present/absent invocation
    call,        \* the arguments of the running invocation
    existsRes,   \* what the existence query of the invocation returned
    ret,         \* the result record the invocation builds
    log,         \* client calls made by the invocation, in order
    prev,        \* the previous invocation and how it ended
    ncalls,      \* number of invocations started
    cmdRes,      \* raw answer of the invocation's add/delete command
    lastMut,     \* per exchange/queue: last mutation the broker applied
    clientOp,    \* last direct client call and what it returned
    fmtInput,    \* _format_response: the raw answer of cmd.run
    fmtOutcome,  \* _format_response: outcome of the mutating client call
    listingText, \* _output_to_dict: the text to parse
    valuesMapper, \* _output_to_dict: the values_mapper argument
    parsePc,     \* _output_to_dict: "idle", "loop", "done" or "raised"
    rowIdx,      \* _output_to_dict: number of data rows processed
    parsed,      \* _output_to_dict: the dict built so far (ret)
    inv,         \* interleaved present/absent invocations, one per caller
    atMutation,  \* per caller: was the entity on the broker when its add/delete was invoked
    touched      \* per caller: did another party mutate between its query and its add/delete

brokerVars == <<exchanges, queues, bindings>>
stateVars  == <<test, pc, call, existsRes, ret, log, prev, ncalls, cmdRes>>
clientVars == <<lastMut, clientOp>>
formatVars == <<fmtInput, fmtOutcome>>
parseVars  == <<listingText, valuesMapper, parsePc, rowIdx, parsed>>
raceVars   == <<inv, atMutation, touched>>
vars == <<exchanges, queues, bindings, test, pc, call, existsRes, ret, log,
          prev, ncalls, cmdRes, lastMut, clientOp, fmtInput, fmtOutcome, listingText,
          valuesMapper, parsePc, rowIdx, parsed, inv, atMutation, touched>>

(***************************************************************************)
(* Bounds                                                                  *)
(***************************************************************************)
MaxCalls == 2        \* present/absent invocations in one run
MaxStrLen == 6       \* length of a raw cmd.run answer given to _format_response
MaxOutLen == 4       \* number of text fragments of an _output_to_dict input
MaxListing == 2      \* number of records of a binding listing the server sends

(***************************************************************************)
(* Text                                                                    *)
(***************************************************************************)
\* sub occurs in s starting at position i (1-based)
IsPrefixAt(sub, s, i) ==
    /\ i + Len(sub) - 1 <= Len(s)
    /\ \A j \in 1..Len(sub) : s[i + j - 1] = sub[j]

\* Python: sub in s
Contains(s, sub) == \E i \in 1..(Len(s) + 1) : IsPrefixAt(sub, s, i)

\* Python: s.startswith(sub)
StartsWith(s, sub) == IsPrefixAt(sub, s, 1)

\* Python: s.endswith(sub)
EndsWith(s, sub) ==
    /\ Len(sub) <= Len(s)
    /\ IsPrefixAt(sub, s, Len(s) - Len(sub) + 1)

sError   == <<"E", "r", "r", "o", "r">>
sAdded   == <<"A", "d", "d", "e", "d">>
sDeleted == <<"D", "e", "l", "e", "t", "e", "d">>

\* Python dict as a set of <<key, value>> pairs
HasKey(d, k) == \E p \in d : p[1] = k
Get(d, k) == (CHOOSE p \in d : p[1] = k)[2]

\* a Python str value / a cmd.run_all style record, as _format_response
\* distinguishes them with isinstance(response, dict)
Str(t) == [type |-> "str", retcode |-> 0, text |-> t]
Dict(rc, out) == [type |-> "dict", retcode |-> rc, text |-> out]

\* values returned by the existence queries
PyBool(b) == [t |-> "bool", b |-> b, s |-> ""]
PyStr(s) == [t |-> "str", b |-> FALSE, s |-> s]
PyNone == [t |-> "None", b |-> FALSE, s |-> ""]

\* Python truthiness, as used by `if x:` / `if not x:`
Truthy(v) ==
    CASE v.t = "bool" -> v.b
      [] v.t = "str" -> v.s # ""
      [] OTHER -> FALSE

(***************************************************************************)
(* Domains of the inputs                                                   *)
(***************************************************************************)
Vhosts == {"/", "v"}
Names == {"orders", "audit"}
Kinds == {"exchange", "queue", "binding"}

\* `arguments`: a sequence of single-key mappings
NoArguments == <<>>
SomeArguments == << {<<"x-match", "all">>} >>
ArgLists == {NoArguments, SomeArguments}

\* the binding identities of the calls: one base tuple and, for each of
\* the five identity fields, a tuple that differs from it in that field only
BaseId ==
    [source |-> "ex", destination |-> "orders", destination_type |-> "queue",
     routing_key |-> "rk", vhost |-> "/"]
BindingIds ==
    {BaseId,
     [BaseId EXCEPT !.source = "ex2"],
     [BaseId EXCEPT !.destination = "audit"],
     [BaseId EXCEPT !.destination_type = "exchange"],
     [BaseId EXCEPT !.routing_key = ""],
     [BaseId EXCEPT !.vhost = "v"]}

(***************************************************************************)
(* The broker behind rabbitmqadmin (the environment of cmd.run)            *)
(***************************************************************************)
\* CLI answers.  A command the broker refuses answers with a text that
\* carries the marker "Error"; an unreachable or unauthorized listing
\* answers with a text that is not JSON.
DeclaredOut == <<"d", "e", "c", "l", "a", "r", "e", "d">>
DeletedOut == <<"d", "e", "l", "e", "t", "e", "d">>
NotFoundOut == <<"*", "*", "*", " ", "N", "o", "t", " ", "f", "o", "u", "n", "d">>
ErrorOut == <<"E", "r", "r", "o", "r", ":", " ", "r", "e", "f", "u", "s", "e", "d">>

\* args = {}; for item in arguments: args.update(item)
RECURSIVE Flatten(_, _)
Flatten(arguments, i) ==
    IF i > Len(arguments) THEN {}
    ELSE LET rest == Flatten(arguments, i + 1)
         IN  rest \cup {p \in arguments[i] : ~HasKey(rest, p[1])}

\* the key the server assigns to a binding: the routing key ("~" when it
\* is empty), followed by a digest of the arguments when there are any
ServerPropertiesKey(routing_key, args) ==
    LET base == IF routing_key = "" THEN "~" ELSE routing_key
    IN  IF args = {} THEN base ELSE base \o "~" \o "h" \o ToString(Cardinality(args))

BindingRecord(source, destination, destination_type, routing_key, vhost, args) ==
    [source |-> source, destination |-> destination,
     destination_type |-> destination_type, routing_key |-> routing_key,
     vhost |-> vhost, arguments |-> args,
     properties_key |-> ServerPropertiesKey(routing_key, args)]

RECURSIVE SetToSeq(_)
SetToSeq(S) ==
    IF S = {} THEN <<>>
    ELSE LET x == CHOOSE y \in S : TRUE IN <<x>> \o SetToSeq(S \ {x})

RECURSIVE SelectSeqBy(_, _, _)
\* the elements of seq, in order, that are in vhost vh
SelectSeqBy(seq, vh, i) ==
    IF i > Len(seq) THEN <<>>
    ELSE (IF seq[i].vhost = vh THEN <<seq[i]>> ELSE <<>>) \o SelectSeqBy(seq, vh, i + 1)

\* rabbitmqadmin list <kind>s -V vhost --format=raw_json
CmdRunList(kind, vhost, ok) ==
    IF ~ok THEN [json |-> FALSE, items |-> <<>>]
    ELSE [json |-> TRUE,
          items |->
            CASE kind = "exchange" -> SetToSeq({e \in exchanges : e.vhost = vhost})
              [] kind = "queue" -> SetToSeq({q \in queues : q.vhost = vhost})
              [] OTHER -> SelectSeqBy(bindings, vhost, 1)]

Broker(ex, qu, bi, out) ==
    [exchanges |-> ex, queues |-> qu, bindings |-> bi, out |-> out]

\* rabbitmqadmin declare exchange|queue name=... -V vhost
CmdRunDeclare(kind, name, vhost, ok) ==
    IF ~ok THEN Broker(exchanges, queues, bindings, ErrorOut)
    ELSE IF kind = "exchange"
         THEN Broker(exchanges \cup {[vhost |-> vhost, name |-> name]}, queues,
                     bindings, DeclaredOut)
         ELSE Broker(exchanges, queues \cup {[vhost |-> vhost, name |-> name]},
                     bindings, DeclaredOut)

\* rabbitmqadmin declare binding source=... destination_type=...
\*   destination=... routing_key=... arguments=<json> -V vhost
CmdRunDeclareBinding(source, destination, destination_type, routing_key, vhost, args, ok) ==
    LET b == BindingRecord(source, destination, destination_type, routing_key,
                           vhost, args)
    IN  IF ~ok THEN Broker(exchanges, queues, bindings, ErrorOut)
        ELSE IF \E i \in 1..Len(bindings) : bindings[i] = b
             THEN Broker(exchanges, queues, bindings, DeclaredOut)
             ELSE Broker(exchanges, queues, Append(bindings, b), DeclaredOut)

\* rabbitmqadmin delete exchange|queue name=... -V vhost --format=table
CmdRunDelete(kind, name, vhost, ok) ==
    LET e == [vhost |-> vhost, name |-> name]
    IN  IF ~ok THEN Broker(exchanges, queues, bindings, ErrorOut)
        ELSE IF kind = "exchange"
             THEN Broker(exchanges \ {e}, queues, bindings,
                         IF e \in exchanges THEN DeletedOut ELSE NotFoundOut)
             ELSE Broker(exchanges, queues \ {e}, bindings,
                         IF e \in queues THEN DeletedOut ELSE NotFoundOut)

RECURSIVE RemoveBinding(_, _, _, _, _, _, _)
RemoveBinding(seq, source, destination, destination_type, properties_key, vhost, i) ==
    IF i > Len(seq) THEN <<>>
    ELSE (IF /\ seq[i].source = source
             /\ seq[i].destination = destination
             /\ seq[i].destination_type = destination_type
             /\ seq[i].properties_key = properties_key
             /\ seq[i].vhost = vhost
          THEN <<>> ELSE <<seq[i]>>)
         \o RemoveBinding(seq, source, destination, destination_type,
                          properties_key, vhost, i + 1)

\* rabbitmqadmin delete binding source=... destination=...
\*   destination_type=... properties_key=... -V vhost --format=table
CmdRunDeleteBinding(source, destination, destination_type, properties_key, vhost, ok) ==
    LET left == RemoveBinding(bindings, source, destination, destination_type,
                              properties_key, vhost, 1)
    IN  IF ~ok THEN Broker(exchanges, queues, bindings, ErrorOut)
        ELSE Broker(exchanges, queues, left,
                    IF left = bindings THEN NotFoundOut ELSE DeletedOut)

(***************************************************************************)
(* rabbitmq_extended: the client module                                    *)
(***************************************************************************)
Raised(err) == [raised |-> TRUE, error |-> err, value |-> {}]
Returned(v) == [raised |-> FALSE, error |-> Str(<<>>), value |-> v]

_format_response_ErrorAtStart(response, msg) ==
    IF response.type = "dict"
    THEN IF response.retcode # 0
         THEN Raised(response)
         ELSE Returned({<<response.text, response>>})
    ELSE IF StartsWith(response.text, sError)
         THEN Raised(response)
         ELSE Returned({<<msg, response>>})

\* def _format_response(response, msg)
_format_response(response, msg) ==
    IF response.type = "dict"
    THEN IF response.retcode # 0
         THEN Raised(response)
         ELSE Returned({<<response.text, response>>})
    ELSE IF Contains(response.text, sError)
         THEN Raised(response)
         ELSE Returned({<<msg, response>>})

\* msg = 'Added'; return _format_response(res, msg)
FormatAdded(res) == _format_response(res, sAdded)

\* msg = 'Deleted'; return _format_response(res, msg)
FormatDeleted(res) == _format_response(res, sDeleted)

\* what an existence query gives back: a value, or an exception of
\* json.loads / of indexing when the listing is no JSON array of records
QueryRaised == [raised |-> TRUE, value |-> PyNone]
QueryReturned(v) == [raised |-> FALSE, value |-> v]

RECURSIVE ScanName(_, _, _)
\* for item in json.loads(res): if item['name'] == name: return True
ScanName(items, name, i) ==
    IF i > Len(items) THEN FALSE
    ELSE IF items[i].name = name THEN TRUE
    ELSE ScanName(items, name, i + 1)

BindingMatches_NoRoutingKey(item, name, destination, destination_type, routing_key, vhost) ==
    /\ item.source = name
    /\ item.destination = destination
    /\ item.destination_type = destination_type
    /\ item.vhost = vhost

\* the condition of the loops of binding_exists / binding_exists_with_props
BindingMatches(item, name, destination, destination_type, routing_key, vhost) ==
    /\ item.source = name
    /\ item.destination = destination
    /\ item.destination_type = destination_type
    /\ item.routing_key = routing_key
    /\ item.vhost = vhost

RECURSIVE ScanBinding(_, _, _, _, _, _, _)
\* index of the first item the loop matches, 0 when it runs to the end
ScanBinding(items, name, destination, destination_type, routing_key, vhost, i) ==
    IF i > Len(items) THEN 0
    ELSE IF BindingMatches(items[i], name, destination, destination_type,
                           routing_key, vhost)
    THEN i
    ELSE ScanBinding(items, name, destination, destination_type, routing_key,
                     vhost, i + 1)

exchange_exists_FalseOnFailure(name, vhost, ok) ==
    LET res == CmdRunList("exchange", vhost, ok)
    IN  QueryReturned(PyBool(res.json /\ ScanName(res.items, name, 1)))

\* def exchange_exists(name, host, port, user, passwd, vhost, runas)
exchange_exists(name, vhost, ok) ==
    LET res == CmdRunList("exchange", vhost, ok)
    IN  IF ~res.json THEN QueryRaised
        ELSE QueryReturned(PyBool(ScanName(res.items, name, 1)))

queue_exists_ListsExchanges(name, vhost, ok) == exchange_exists(name, vhost, ok)

\* def queue_exists(name, host, port, user, passwd, vhost, runas)
queue_exists(name, vhost, ok) ==
    LET res == CmdRunList("queue", vhost, ok)
    IN  IF ~res.json THEN QueryRaised
        ELSE QueryReturned(PyBool(ScanName(res.items, name, 1)))

\* def binding_exists(name, destination, destination_type, routing_key, ..., vhost)
binding_exists(name, destination, destination_type, routing_key, vhost, ok) ==
    LET res == CmdRunList("binding", vhost, ok)
    IN  IF ~res.json THEN QueryRaised
        ELSE QueryReturned(PyBool(
                ScanBinding(res.items, name, destination, destination_type,
                            routing_key, vhost, 1) # 0))

\* def binding_exists_with_props(name, destination, destination_type, routing_key, ..., vhost)
binding_exists_with_props(name, destination, destination_type, routing_key, vhost, ok) ==
    LET res == CmdRunList("binding", vhost, ok)
        i == ScanBinding(res.items, name, destination, destination_type,
                         routing_key, vhost, 1)
    IN  IF ~res.json THEN QueryRaised
        ELSE IF i = 0 THEN QueryReturned(PyNone)
        ELSE QueryReturned(PyStr(res.items[i].properties_key))

\* a mutating client call: the broker after it and what the call gives back
Mutation(b, r) ==
    [exchanges |-> b.exchanges, queues |-> b.queues, bindings |-> b.bindings,
     out |-> b.out, result |-> r]

\* def add_exchange(exchange, host, port, user, passwd, vhost, type, ...)
add_exchange(exchange, vhost, ok) ==
    LET b == CmdRunDeclare("exchange", exchange, vhost, ok)
    IN  Mutation(b, FormatAdded(Str(b.out)))

\* def add_queue(queue, host, port, user, passwd, vhost, durable, ...)
add_queue(queue, vhost, ok) ==
    LET b == CmdRunDeclare("queue", queue, vhost, ok)
    IN  Mutation(b, FormatAdded(Str(b.out)))

\* def add_binding(binding, destination, destination_type, routing_key, ..., vhost, arguments)
add_binding(binding, destination, destination_type, routing_key, vhost, arguments, ok) ==
    LET args == Flatten(arguments, 1)
        b == CmdRunDeclareBinding(binding, destination, destination_type,
                                  routing_key, vhost, args, ok)
    IN  Mutation(b, FormatAdded(Str(b.out)))

\* def delete_exchange(exchange, host, port, user, passwd, vhost, runas)
delete_exchange(exchange, vhost, ok) ==
    LET b == CmdRunDelete("exchange", exchange, vhost, ok)
    IN  Mutation(b, FormatDeleted(Str(b.out)))

\* def delete_queue(queue, host, port, user, passwd, vhost, runas)
delete_queue(queue, vhost, ok) ==
    LET b == CmdRunDelete("queue", queue, vhost, ok)
    IN  Mutation(b, FormatDeleted(Str(b.out)))

\* def delete_binding(binding, destination, destination_type, properties_key, ..., vhost)
delete_binding(binding, destination, destination_type, properties_key, vhost, ok) ==
    LET b == CmdRunDeleteBinding(binding, destination, destination_type,
                                 properties_key, vhost, ok)
    IN  Mutation(b, FormatDeleted(Str(b.out)))

(***************************************************************************)
(* rabbitmq_exchange / rabbitmq_queue / rabbitmq_binding: present, absent  *)
(***************************************************************************)
Call(fn, kind, name, vhost, destination, destination_type, routing_key, arguments) ==
    [fn |-> fn, kind |-> kind, name |-> name, vhost |-> vhost,
     destination |-> destination, destination_type |-> destination_type,
     routing_key |-> routing_key, arguments |-> arguments]

NoCall == Call("none", "none", "", "", "", "", "", NoArguments)

\* the invocations a run draws from
StateCalls ==
    {Call(fn, kind, n, vh, "", "", "", NoArguments) :
        fn \in {"present", "absent"}, kind \in {"exchange", "queue"},
        n \in Names, vh \in Vhosts}
    \cup {Call("present", "binding", id.source, id.vhost, id.destination,
               id.destination_type, id.routing_key, a) :
            id \in BindingIds, a \in ArgLists}
    \cup {Call("absent", "binding", id.source, id.vhost, id.destination,
               id.destination_type, id.routing_key, NoArguments) :
            id \in BindingIds}

\* ret = {'name': name, 'result': True, 'comment': '', 'changes': {}}
InitRet(name) ==
    [name |-> name, result |-> "True", comment |-> Str(<<>>), changes |-> {}]

NoRet == InitRet("")

Title(kind) ==
    CASE kind = "exchange" -> "Exchange"
      [] kind = "queue" -> "Queue"
      [] OTHER -> "Binding"

\* '<Kind> \'{0}\' for vhost \'{1}\' already exists.'.format(name, vhost)
AlreadyExistsComment(c) ==
    Str(<<Title(c.kind), " '", c.name, "' for vhost '", c.vhost, "' already exists.">>)

\* '<Kind> \'{0}\' for vhost \'{1}\' will be created.'.format(name, vhost)
WillBeCreatedComment(c) ==
    Str(<<Title(c.kind), " '", c.name, "' for vhost '", c.vhost, "' will be created.">>)

\* the binding module says 'not exists', the other two 'already not exists'
NotExistsComment(c) ==
    Str(<<Title(c.kind), " '", c.name, "' for vhost '", c.vhost,
          IF c.kind = "binding" THEN "' not exists." ELSE "' already not exists.">>)

\* the binding module says 'Exchange ... will be removed', like the exchange module
WillBeRemovedComment(c) ==
    Str(<<IF c.kind = "queue" THEN "Queue" ELSE "Exchange", " '", c.name,
          "' will be removed from vhost '", c.vhost, "'.">>)

\* the client function an invocation queries existence with
ExistsFn(c) ==
    CASE c.kind = "exchange" -> "exchange_exists"
      [] c.kind = "queue" -> "queue_exists"
      [] c.fn = "present" -> "binding_exists"
      [] OTHER -> "binding_exists_with_props"

AddFn(kind) ==
    CASE kind = "exchange" -> "add_exchange"
      [] kind = "queue" -> "add_queue"
      [] OTHER -> "add_binding"

DeleteFn(kind) ==
    CASE kind = "exchange" -> "delete_exchange"
      [] kind = "queue" -> "delete_queue"
      [] OTHER -> "delete_binding"

\* __salt__['rabbitmq_extended.<kind>_exists'](...)
ExistsQuery(c, ok) ==
    CASE c.kind = "exchange" -> exchange_exists(c.name, c.vhost, ok)
      [] c.kind = "queue" -> queue_exists(c.name, c.vhost, ok)
      [] c.fn = "present" ->
            binding_exists(c.name, c.destination, c.destination_type,
                           c.routing_key, c.vhost, ok)
      [] OTHER ->
            binding_exists_with_props(c.name, c.destination, c.destination_type,
                                      c.routing_key, c.vhost, ok)

AddCall_AlwaysExchange(c, ok) == add_exchange(c.name, c.vhost, ok)

\* __salt__['rabbitmq_extended.add_<kind>'](...)
AddCall(c, ok) ==
    CASE c.kind = "exchange" -> add_exchange(c.name, c.vhost, ok)
      [] c.kind = "queue" -> add_queue(c.name, c.vhost, ok)
      [] OTHER -> add_binding(c.name, c.destination, c.destination_type,
                              c.routing_key, c.vhost, c.arguments, ok)

\* __salt__['rabbitmq_extended.delete_<kind>'](...); the binding module
\* passes the properties_key its existence query returned
DeleteCall(c, properties_key, ok) ==
    CASE c.kind = "exchange" -> delete_exchange(c.name, c.vhost, ok)
      [] c.kind = "queue" -> delete_queue(c.name, c.vhost, ok)
      [] OTHER -> delete_binding(c.name, c.destination, c.destination_type,
                                 properties_key.s, c.vhost, ok)

NothingToDo_SameTestForAbsent(c, q) == Truthy(q)

NothingToDo_Never(c, q) == FALSE

\* present: `if <kind>_exists:` ; absent: `if not <kind>_exists:` /
\* `if not properties_key:` -- the invocation returns without a change
NothingToDo(c, q) ==
    IF c.fn = "present" THEN Truthy(q) ELSE ~Truthy(q)

ChangesOf_AsInPresent(c) == {<<"old", "">>, <<"new", c.name>>}

\* ret['changes'] = {'old': '', 'new': name}  /  {'new': '', 'old': name}
ChangesOf(c) ==
    IF c.fn = "present"
    THEN {<<"old", "">>, <<"new", c.name>>}
    ELSE {<<"new", "">>, <<"old", c.name>>}

DryRunRet_ResultLeftTrue(c) ==
    [name |-> c.name, result |-> "True",
     comment |-> IF c.fn = "present" THEN WillBeCreatedComment(c)
                 ELSE WillBeRemovedComment(c),
     changes |-> ChangesOf(c)]

\* the record a dry run returns after the existence check asked for a change
DryRunRet(c) ==
    [name |-> c.name, result |-> "None",
     comment |-> IF c.fn = "present" THEN WillBeCreatedComment(c)
                 ELSE WillBeRemovedComment(c),
     changes |-> ChangesOf(c)]

\* the record built from what the mutating client call returned:
\*   if 'Error' in result: result False, comment result['Error'], return
\*   elif 'Added' in result: comment result['Added']    (absent: 'Deleted')
\*   ret['changes'] = {...}
MutatedRet(c, result) ==
    LET label == IF c.fn = "present" THEN sAdded ELSE sDeleted
    IN  IF HasKey(result, sError)
        THEN [name |-> c.name, result |-> "False",
              comment |-> Get(result, sError), changes |-> {}]
        ELSE [name |-> c.name, result |-> "True",
              comment |-> IF HasKey(result, label) THEN Get(result, label)
                          ELSE Str(<<>>),
              changes |-> ChangesOf(c)]

\* the record of an invocation that found nothing to do
NoChangeRet(c) ==
    [InitRet(c.name) EXCEPT !.comment = IF c.fn = "present"
                                        THEN AlreadyExistsComment(c)
                                        ELSE NotExistsComment(c)]

AfterCheck_IgnoresDryRun(c, q, dry) ==
    IF NothingToDo(c, q) THEN "returned" ELSE "mutate"

\* where the invocation goes after its existence check: it returns when
\* there is nothing to do, and `if not __opts__['test']:` keeps a dry run
\* from the add/delete call
AfterCheck(c, q, dry) ==
    IF NothingToDo(c, q) THEN "returned"
    ELSE IF dry THEN "returned" ELSE "mutate"

NoPrev == [call |-> NoCall, status |-> "none", ret |-> NoRet]

\* present/absent is entered: the result record is initialised, the
\* existence query is made, and the invocation returns at once when there
\* is nothing to do or when the run is a dry run
Invoke(c) ==
    /\ pc = "idle"
    /\ ncalls < MaxCalls
    /\ ncalls' = ncalls + 1
    /\ call' = c
    /\ log' = <<ExistsFn(c)>>
    /\ \E ok \in BOOLEAN :
         LET q == ExistsQuery(c, ok)
         IN  IF q.raised
             THEN /\ pc' = "raised"
                  /\ existsRes' = PyNone
                  /\ ret' = InitRet(c.name)
             ELSE /\ existsRes' = q.value
                  /\ pc' = AfterCheck(c, q.value, test)
                  /\ ret' = IF NothingToDo(c, q.value) THEN NoChangeRet(c)
                            ELSE IF pc' = "returned" THEN DryRunRet(c)
                            ELSE InitRet(c.name)
    /\ UNCHANGED <<brokerVars, test, prev, cmdRes, clientVars, formatVars, parseVars, raceVars>>

\* `if not __opts__['test']:` -- the add (present) or delete (absent)
\* client call and the rest of the function
Mutate ==
    /\ pc = "mutate"
    /\ \E ok \in BOOLEAN :
         LET m == IF call.fn = "present" THEN AddCall(call, ok)
                  ELSE DeleteCall(call, existsRes, ok)
         IN  /\ exchanges' = m.exchanges
             /\ queues' = m.queues
             /\ bindings' = m.bindings
             /\ cmdRes' = m.out
             /\ IF m.result.raised
                THEN pc' = "raised" /\ ret' = ret
                ELSE pc' = "returned" /\ ret' = MutatedRet(call, m.result.value)
    /\ log' = Append(log, IF call.fn = "present" THEN AddFn(call.kind)
                          ELSE DeleteFn(call.kind))
    /\ UNCHANGED <<test, call, existsRes, prev, ncalls, clientVars, formatVars,
                   parseVars, raceVars>>

\* the invocation is over (it returned ret, or an exception left it)
Finish ==
    /\ pc \in {"returned", "raised"}
    /\ pc' = "idle"
    /\ prev' = [call |-> call, status |-> pc, ret |-> ret]
    /\ cmdRes' = <<>>
    /\ call' = NoCall
    /\ existsRes' = PyNone
    /\ ret' = NoRet
    /\ log' = <<>>
    /\ UNCHANGED <<brokerVars, test, ncalls, clientVars, formatVars, parseVars, raceVars>>

\* what a run may find in the broker: nothing, or an exchange, a queue
\* and two bindings of the base identity that differ in their arguments
B0 == BindingRecord(BaseId.source, BaseId.destination, BaseId.destination_type,
                    BaseId.routing_key, BaseId.vhost, Flatten(NoArguments, 1))
BA == BindingRecord(BaseId.source, BaseId.destination, BaseId.destination_type,
                    BaseId.routing_key, BaseId.vhost, Flatten(SomeArguments, 1))
EmptyBroker == Broker({}, {}, <<>>, <<>>)
PopulatedBroker ==
    Broker({[vhost |-> "/", name |-> "orders"]}, {[vhost |-> "/", name |-> "orders"]},
           <<BA, B0>>, <<>>)
InitBrokers == {EmptyBroker, PopulatedBroker}

\* the names the direct client calls are about: two names of one vhost
\* and one of them in a second vhost
ClientTargets ==
    {[vhost |-> "/", name |-> "orders"], [vhost |-> "/", name |-> "audit"],
     [vhost |-> "v", name |-> "orders"]}
NoLastMut == [k \in {"exchange", "queue"}, t \in ClientTargets |-> "none"]
ClientOp(fn, name, vhost, raised, value, result) ==
    [fn |-> fn, name |-> name, vhost |-> vhost, raised |-> raised,
     value |-> value, result |-> result]
NoClientOp == ClientOp("none", "", "", FALSE, PyNone, {})

IdleClient == lastMut = NoLastMut /\ clientOp = NoClientOp

\* the callers whose present/absent invocations may interleave (two
\* state runs against one broker), and an invocation that has not begun
Callers == {"a", "b"}
NoInv == [pc |-> "idle", call |-> NoCall, existsRes |-> PyNone, ret |-> NoRet,
          log |-> <<>>]
IdleRace ==
    /\ inv = [p \in Callers |-> NoInv]
    /\ atMutation = [p \in Callers |-> "none"]
    /\ touched = [p \in Callers |-> FALSE]
IdleFormat == fmtInput = Str(<<>>) /\ fmtOutcome = [fn |-> "none", res |-> Returned({})]
IdleParse ==
    /\ listingText = <<>> /\ valuesMapper = "None" /\ parsePc = "idle"
    /\ rowIdx = 0 /\ parsed = {}
IdleState ==
    /\ test = FALSE /\ pc = "idle" /\ call = NoCall /\ existsRes = PyNone
    /\ ret = NoRet /\ log = <<>> /\ prev = NoPrev /\ ncalls = 0
    /\ cmdRes = <<>>

Init ==
    /\ \E b \in InitBrokers :
         exchanges = b.exchanges /\ queues = b.queues /\ bindings = b.bindings
    /\ test \in BOOLEAN
    /\ pc = "idle"
    /\ call = NoCall
    /\ existsRes = PyNone
    /\ ret = NoRet
    /\ log = <<>>
    /\ prev = NoPrev
    /\ ncalls = 0
    /\ cmdRes = <<>>
    /\ IdleClient /\ IdleFormat /\ IdleParse /\ IdleRace

Next ==
    \/ \E c \in StateCalls : Invoke(c)
    \/ Mutate
    \/ Finish

Spec == Init /\ [][Next]_vars

(***************************************************************************)
(* Properties of present / absent (specification Spec)                     *)
(***************************************************************************)
\* what the broker holds, stated on the broker and not through the client
IdentityMatches(b, c) ==
    /\ b.source = c.name
    /\ b.destination = c.destination
    /\ b.destination_type = c.destination_type
    /\ b.routing_key = c.routing_key
    /\ b.vhost = c.vhost

MatchingBindings(c) == {i \in 1..Len(bindings) : IdentityMatches(bindings[i], c)}

EntityExists(c) ==
    CASE c.kind = "exchange" -> [vhost |-> c.vhost, name |-> c.name] \in exchanges
      [] c.kind = "queue" -> [vhost |-> c.vhost, name |-> c.name] \in queues
      [] OTHER -> MatchingBindings(c) # {}

AddFns == {"add_exchange", "add_queue", "add_binding"}
DeleteFns == {"delete_exchange", "delete_queue", "delete_binding"}
ExistsFns == {"exchange_exists", "queue_exists", "binding_exists",
              "binding_exists_with_props"}
Logged(fns) == \E i \in 1..Len(log) : log[i] \in fns

\* the invocation in progress repeats the one before it, which returned
RepeatsPrev == pc # "idle" /\ prev.status = "returned" /\ prev.call = call

\* C1: present is idempotent for exchanges, queues and bindings: outside
\* dry-run, when present is invoked twice in succession with the same
\* arguments and the first call returned, the second call makes no add
\* and, when it returns, returns result True and changes {}.
C1_PresentIdempotent ==
    (RepeatsPrev /\ call.fn = "present" /\ ~test) =>
        /\ pc # "mutate"
        /\ ~Logged(AddFns)
        /\ pc = "returned" => (ret.result = "True" /\ ret.changes = {})

C1_Witness ==
    /\ RepeatsPrev /\ call.fn = "present" /\ ~test
    /\ call.kind = "binding"
    /\ prev.ret.changes # {}
    /\ pc = "returned"

\* C2: absent is idempotent: invoked (dry-run or not) on an entity the
\* broker does not hold, it leaves the broker unchanged, goes on to no
\* delete, and returns result True and changes {}.
C2_AbsentIdempotent ==
    [][(pc = "idle" /\ pc' # "idle" /\ call'.fn = "absent" /\ ~EntityExists(call'))
        => /\ brokerVars' = brokerVars
           /\ pc' # "mutate"
           /\ \A i \in 1..Len(log') : log'[i] \notin DeleteFns
           /\ pc' = "returned" => (ret'.result = "True" /\ ret'.changes = {})]_vars

C2_Witness ==
    /\ pc = "returned" /\ call.fn = "absent" /\ call.kind = "binding"
    /\ Len(log) = 1 /\ ~EntityExists(call) /\ bindings # <<>>
    /\ ret.result = "True" /\ ret.changes = {}

\* a change would occur: present on a missing entity, absent on an existing one
WouldChange(c) == (c.fn = "present") # EntityExists(c)

\* C3: in dry-run mode present and absent never invoke add or delete and
\* leave the broker unchanged; the record they return has result None when
\* a change would occur and result True with changes {} when none would.
C3_DryRun ==
    [][test =>
        /\ brokerVars' = brokerVars
        /\ pc' # "mutate"
        /\ ~(\E i \in 1..Len(log') : log'[i] \in AddFns \cup DeleteFns)
        /\ (pc = "idle" /\ pc' = "returned") =>
              IF WouldChange(call')
              THEN ret'.result = "None"
              ELSE ret'.result = "True" /\ ret'.changes = {}]_vars

C3_Witness ==
    /\ test /\ pc = "returned" /\ call.fn = "absent" /\ call.kind = "queue"
    /\ EntityExists(call) /\ ret.result = "None"

\* the invocation made its add/delete call and is over
MutationDone == pc \in {"returned", "raised"} /\ Len(log) = 2

\* C4 (as claimed): when the add/delete of a non-dry-run present/absent
\* fails (the CLI answer reports an error), the invocation returns a
\* record with result False, the error text as comment and changes {};
\* when it succeeds the record has result True and changes {old, new}.
C4_FailureIsReported ==
    MutationDone =>
        /\ pc = "returned"
        /\ IF Contains(cmdRes, sError)
           THEN /\ ret.result = "False"
                /\ ret.comment = Str(cmdRes)
                /\ ret.changes = {}
           ELSE /\ ret.result = "True"
                /\ ret.changes = IF call.fn = "present"
                                 THEN {<<"old", "">>, <<"new", call.name>>}
                                 ELSE {<<"old", call.name>>, <<"new", "">>}

\* smallest element of a non-empty set of indices
MinOf(S) == CHOOSE i \in S : \A j \in S : i <= j

\* the existence query of the invocation has returned and nothing was
\* mutated since (the broker is the one the query listed)
QueryAnswered == pc \in {"mutate", "returned"} /\ Len(log) = 1

\* C6: binding identity is (source, destination, destination_type,
\* routing_key, vhost); arguments and properties_key are ignored.
\* binding_exists is true iff some listed binding matches the five fields,
\* so present is a no-op when a binding of that identity exists, whatever
\* its arguments; binding_exists_with_props gives the properties_key of
\* the first listed binding of that identity, and None when there is none.
C6_BindingIdentity ==
    (QueryAnswered /\ call.kind = "binding") =>
        LET M == MatchingBindings(call)
        IN  IF call.fn = "present"
            THEN /\ existsRes = PyBool(M # {})
                 /\ M # {} => (pc = "returned" /\ ret.changes = {})
            ELSE existsRes = IF M = {} THEN PyNone
                             ELSE PyStr(bindings[MinOf(M)].properties_key)

C6_Witness ==
    /\ QueryAnswered /\ call.kind = "binding" /\ call.fn = "present"
    /\ call.arguments = SomeArguments
    /\ MatchingBindings(call) # {}
    /\ \A i \in MatchingBindings(call) : bindings[i].arguments = {}
    /\ pc = "returned" /\ ret.changes = {}

\* what the existence check of the invocation said
ChangeNeeded ==
    IF call.fn = "present" THEN ~Truthy(existsRes) ELSE Truthy(existsRes)

\* C7: every record present/absent returns has result in {True, False,
\* None}, None only in dry-run; changes is {} or exactly {old: '', new:
\* name} (present) / {old: name, new: ''} (absent); changes is non-empty
\* iff the existence check asked for a change and no failure was reported.
C7_ResultRecord ==
    pc = "returned" =>
        /\ ret.result \in {"True", "False", "None"}
        /\ ret.result = "None" => test
        /\ \/ ret.changes = {}
           \/ /\ call.fn = "present"
              /\ ret.changes = {<<"old", "">>, <<"new", call.name>>}
           \/ /\ call.fn = "absent"
              /\ ret.changes = {<<"old", call.name>>, <<"new", "">>}
        /\ ret.changes # {} <=> (ChangeNeeded /\ ret.result # "False")

C7_Witness ==
    /\ pc = "returned" /\ call.fn = "absent" /\ call.kind = "binding"
    /\ ~test /\ ret.changes = {<<"old", call.name>>, <<"new", "">>}

\* C9: an invocation makes exactly one existence query, before any
\* mutation; after it at most one mutating client call, add for present
\* and delete for absent; outside dry-run it makes that call iff the
\* existence check asked for a change, in dry-run never.
C9_OneQueryOneMutation ==
    pc # "idle" =>
        /\ Len(log) \in {1, 2}
        /\ log[1] = ExistsFn(call)
        /\ \A i \in 2..Len(log) :
              /\ log[i] \notin ExistsFns
              /\ log[i] = IF call.fn = "present" THEN AddFn(call.kind)
                          ELSE DeleteFn(call.kind)
        /\ pc = "mutate" => Len(log) = 1
        /\ Len(log) = 2 => (~test /\ ChangeNeeded)
        /\ pc = "returned" => (Len(log) = 2 <=> (~test /\ ChangeNeeded))

C9_Witness ==
    /\ pc = "returned" /\ call.fn = "absent" /\ call.kind = "exchange"
    /\ log = <<"exchange_exists", "delete_exchange">>

\* exchange_exists / queue_exists / binding_exists raise when the listing
\* is no JSON array of records, and return a bool when it is one
QueriesRaiseOnFailedListing ==
    /\ \A n \in Names, vh \in Vhosts :
          /\ exchange_exists(n, vh, FALSE).raised
          /\ queue_exists(n, vh, FALSE).raised
          /\ ~exchange_exists(n, vh, TRUE).raised
          /\ exchange_exists(n, vh, TRUE).value.t = "bool"
          /\ ~queue_exists(n, vh, TRUE).raised
          /\ queue_exists(n, vh, TRUE).value.t = "bool"
    /\ \A id \in BindingIds :
          /\ binding_exists(id.source, id.destination, id.destination_type,
                            id.routing_key, id.vhost, FALSE).raised
          /\ binding_exists_with_props(id.source, id.destination,
                                       id.destination_type, id.routing_key,
                                       id.vhost, FALSE).raised
          /\ binding_exists(id.source, id.destination, id.destination_type,
                            id.routing_key, id.vhost, TRUE).value.t = "bool"

\* C14: transport/authorization failures never turn into a normal outcome.
\* With a failed listing the existence queries raise instead of returning
\* a bool, and an invocation goes on (or returns a record) only with the
\* answer of a listing that worked; when the existence query raises inside
\* present/absent, no add/delete is invoked and the broker is left alone;
\* when the add/delete command answers with an error, the client call
\* raises; in both cases the error leaves the state function, which
\* returns no result record.
C14_FailuresPropagate ==
    /\ [](QueriesRaiseOnFailedListing)
    /\ [][ /\ (pc = "idle" /\ pc' = "raised") =>
                /\ log' = <<ExistsFn(call')>>
                /\ brokerVars' = brokerVars
           /\ (pc = "idle" /\ pc' \in {"mutate", "returned"}) =>
                QueryReturned(existsRes') = ExistsQuery(call', TRUE)
           /\ (pc = "mutate" /\ Contains(cmdRes', sError)) => pc' = "raised"
           /\ pc = "raised" =>
                /\ pc' = "idle"
                /\ prev'.status = "raised"
                /\ brokerVars' = brokerVars ]_vars

\* the listing of exchange_exists failed inside a non-dry-run present of
\* a missing exchange, after an invocation that had raised as well
C14_Witness ==
    /\ pc = "raised" /\ log = <<"exchange_exists">>
    /\ call.fn = "present" /\ call.kind = "exchange" /\ ~test
    /\ ~EntityExists(call)
    /\ prev.status = "raised" /\ prev.call.fn = "absent"

\* a non-dry-run absent of a binding made its delete call, which succeeded
BindingDeleteSucceeded(status, c, calls, answer) ==
    /\ status = "returned" /\ c.fn = "absent" /\ c.kind = "binding"
    /\ Len(calls) = 2 /\ ~Contains(answer, sError)

\* C11 (as claimed): binding absent converges to absence: after a
\* non-dry-run absent whose delete succeeded, with no other actor on the
\* broker, binding_exists for that identity returns False, and an absent
\* with the same arguments that follows at once returns changes {} and
\* result True -- whatever bindings the broker held, several bindings of
\* one identity with different arguments included.
C11_AbsentConverges ==
    /\ BindingDeleteSucceeded(pc, call, log, cmdRes) =>
          binding_exists(call.name, call.destination, call.destination_type,
                         call.routing_key, call.vhost, TRUE)
              = QueryReturned(PyBool(FALSE))
    /\ ( /\ RepeatsPrev /\ ~test /\ pc = "returned"
         /\ call.fn = "absent" /\ call.kind = "binding"
         /\ prev.ret.changes # {} )
          => (ret.changes = {} /\ ret.result = "True")

(***************************************************************************)
(* The client functions called directly (specification SpecClient):        *)
(* salt '*' rabbitmq_extended.queue_exists / add_queue / delete_queue ...  *)
(***************************************************************************)
\* exchange_exists / queue_exists is called
ClientExists(kind, name, vhost) ==
    /\ \E ok \in BOOLEAN :
         LET q == IF kind = "exchange" THEN exchange_exists(name, vhost, ok)
                  ELSE queue_exists(name, vhost, ok)
         IN  clientOp' = ClientOp(kind \o "_exists", name, vhost, q.raised,
                                  q.value, {})
    /\ UNCHANGED <<brokerVars, stateVars, lastMut, formatVars, parseVars, raceVars>>

\* add_exchange / add_queue is called
ClientAdd(kind, name, vhost) ==
    /\ \E ok \in BOOLEAN :
         LET m == IF kind = "exchange" THEN add_exchange(name, vhost, ok)
                  ELSE add_queue(name, vhost, ok)
         IN  /\ exchanges' = m.exchanges
             /\ queues' = m.queues
             /\ bindings' = m.bindings
             /\ clientOp' = ClientOp("add_" \o kind, name, vhost, m.result.raised,
                                     PyNone, m.result.value)
             /\ lastMut' = IF ok THEN [lastMut EXCEPT ![kind, [vhost |-> vhost, name |-> name]] = "add"]
                           ELSE lastMut
    /\ UNCHANGED <<stateVars, formatVars, parseVars, raceVars>>

\* delete_exchange / delete_queue is called
ClientDelete(kind, name, vhost) ==
    /\ \E ok \in BOOLEAN :
         LET m == IF kind = "exchange" THEN delete_exchange(name, vhost, ok)
                  ELSE delete_queue(name, vhost, ok)
         IN  /\ exchanges' = m.exchanges
             /\ queues' = m.queues
             /\ bindings' = m.bindings
             /\ clientOp' = ClientOp("delete_" \o kind, name, vhost,
                                     m.result.raised, PyNone, m.result.value)
             /\ lastMut' = IF ok THEN [lastMut EXCEPT ![kind, [vhost |-> vhost, name |-> name]] = "delete"]
                           ELSE lastMut
    /\ UNCHANGED <<stateVars, formatVars, parseVars, raceVars>>

InitClient ==
    /\ exchanges = {} /\ queues = {} /\ bindings = <<>>
    /\ IdleState /\ IdleClient /\ IdleFormat /\ IdleParse /\ IdleRace

NextClient ==
    \E kind \in {"exchange", "queue"}, t \in ClientTargets :
        \/ ClientExists(kind, t.name, t.vhost)
        \/ ClientAdd(kind, t.name, t.vhost)
        \/ ClientDelete(kind, t.name, t.vhost)

SpecClient == InitClient /\ [][NextClient]_vars

\* the kind an existence query asks about
QueriedKind == IF clientOp.fn = "exchange_exists" THEN "exchange" ELSE "queue"

QueriedTarget == [vhost |-> clientOp.vhost, name |-> clientOp.name]

\* C5: with a broker whose listing reflects the declares and deletes it
\* accepted, exchange_exists(name) / queue_exists(name) returns True iff
\* the last accepted mutation of that name in that vhost was an add, and
\* False when it was a delete or the name was never added.
C5_ExistsFollowsLastMutation ==
    (clientOp.fn \in {"exchange_exists", "queue_exists"} /\ ~clientOp.raised) =>
        clientOp.value =
            PyBool(lastMut[QueriedKind, QueriedTarget] = "add")

C5_Witness ==
    /\ clientOp.fn = "queue_exists" /\ ~clientOp.raised
    /\ clientOp.value = PyBool(FALSE)
    /\ lastMut["queue", QueriedTarget] = "delete"
    /\ lastMut["exchange", QueriedTarget] = "add"
    /\ \E t \in ClientTargets :
          t.name = clientOp.name /\ lastMut["queue", t] = "add"

(***************************************************************************)
(* Response normalisation of the mutating client calls (SpecFormat): the   *)
(* answer of cmd.run is drawn from bounded sets of texts and records       *)
(***************************************************************************)
Letters == {"E", "r", "o"}

\* the texts over Letters of length at most n
TextsUpTo(n) == UNION {[1..k -> Letters] : k \in 0..n}

FormatInputs ==
    {Str(t) : t \in TextsUpTo(MaxStrLen)}
    \cup {Dict(rc, out) : rc \in {0, 1, 2},
                          out \in {<<>>, <<"o">>, sError, sAdded, sDeleted}}

\* a mutating client call hands the answer of its command to _format_response
ClientReturns(fn) ==
    /\ fmtOutcome.fn = "none"
    /\ fmtOutcome' = [fn |-> fn,
                      res |-> IF fn \in {"add_exchange", "add_queue", "add_binding"}
                              THEN FormatAdded(fmtInput)
                              ELSE FormatDeleted(fmtInput)]
    /\ UNCHANGED <<brokerVars, stateVars, clientVars, fmtInput, parseVars, raceVars>>

InitFormat ==
    /\ exchanges = {} /\ queues = {} /\ bindings = <<>>
    /\ IdleState /\ IdleClient /\ IdleParse /\ IdleRace
    /\ fmtInput \in FormatInputs
    /\ fmtOutcome = [fn |-> "none", res |-> Returned({})]

NextFormat ==
    \E fn \in {"add_exchange", "add_queue", "add_binding", "delete_exchange",
               "delete_queue", "delete_binding"} : ClientReturns(fn)

SpecFormat == InitFormat /\ [][NextFormat]_vars

\* the text has the five characters E, r, r, o, r in a row somewhere
HasErrorMarker(t) ==
    \E i \in 1..(Len(t) - 4) : SubSeq(t, i, i + 4) = <<"E", "r", "r", "o", "r">>

\* C8: response normalisation of every add_* / delete_* call: a structured
\* response with nonzero return code raises; a structured response with
\* zero return code uses its output text as the message; a plain string
\* containing 'Error' raises; any other plain string r is returned as
\* exactly {'Added': r} by the add calls and {'Deleted': r} by the delete calls.
C8_ResponseNormalization ==
    fmtOutcome.fn # "none" =>
        LET r == fmtInput
            o == fmtOutcome.res
            label == IF fmtOutcome.fn \in AddFns
                     THEN <<"A", "d", "d", "e", "d">>
                     ELSE <<"D", "e", "l", "e", "t", "e", "d">>
        IN  CASE r.type = "dict" /\ r.retcode # 0 -> o.raised
              [] r.type = "dict" /\ r.retcode = 0 ->
                    ~o.raised /\ o.value = {<<r.text, r>>}
              [] r.type = "str" /\ HasErrorMarker(r.text) -> o.raised
              [] OTHER -> ~o.raised /\ o.value = {<<label, r>>}

C8_Witness ==
    /\ fmtOutcome.fn = "delete_binding"
    /\ fmtInput = Str(<<"E", "r", "r", "o", "E", "r">>)
    /\ fmtOutcome.res = Returned({<<sDeleted, fmtInput>>})

(***************************************************************************)
(* _output_to_dict (SpecParse): the text is drawn from the concatenations  *)
(* of at most MaxOutLen fragments                                          *)
(***************************************************************************)
TAB == "\t"
NL == "\n"

sListing == <<"L", "i", "s", "t", "i", "n", "g">>
sDots == <<".", ".", ".">>
sDotsDone == <<".", ".", ".", "d", "o", "n", "e">>
sWarning == <<"W", "A", "R", "N", "I", "N", "G", ":">>

Fragments ==
    {sListing, sDots, <<"d", "o", "n", "e">>, sWarning, <<TAB>>, <<NL>>,
     <<"k">>, <<"/">>}

RECURSIVE Concat(_)
Concat(fs) == IF fs = <<>> THEN <<>> ELSE Head(fs) \o Concat(Tail(fs))

ParseInputs ==
    {Concat(fs) : fs \in UNION {[1..k -> Fragments] : k \in 0..MaxOutLen}}

\* index of the first occurrence of character ch in s, 0 when there is none
RECURSIVE IndexOf(_, _, _)
IndexOf(s, ch, i) ==
    IF i > Len(s) THEN 0
    ELSE IF s[i] = ch THEN i ELSE IndexOf(s, ch, i + 1)

\* Python: s.splitlines(), for texts whose only line boundary is "\n"
RECURSIVE SplitLines(_)
SplitLines(s) ==
    IF s = <<>> THEN <<>>
    ELSE LET i == IndexOf(s, NL, 1)
         IN  IF i = 0 THEN <<s>>
             ELSE <<SubSeq(s, 1, i - 1)>> \o SplitLines(SubSeq(s, i + 1, Len(s)))

\* Python: s.split('\t')
RECURSIVE SplitTabs(_)
SplitTabs(s) ==
    LET i == IndexOf(s, TAB, 1)
    IN  IF i = 0 THEN <<s>>
        ELSE <<SubSeq(s, 1, i - 1)>> \o SplitTabs(SubSeq(s, i + 1, Len(s)))

\* Python: s.split('\t', 1)
SplitTabOnce(s) ==
    LET i == IndexOf(s, TAB, 1)
    IN  IF i = 0 THEN <<s>>
        ELSE <<SubSeq(s, 1, i - 1), SubSeq(s, i + 1, Len(s))>>

\* def _safe_output(line)
_safe_output(line) ==
    ~ \/ StartsWith(line, sListing) /\ EndsWith(line, sDots)
      \/ Contains(line, sDotsDone)
      \/ StartsWith(line, sWarning)

\* def _strip_listing_to_done(output_list)
RECURSIVE _strip_listing_to_done(_)
_strip_listing_to_done(output_list) ==
    IF output_list = <<>> THEN <<>>
    ELSE (IF _safe_output(Head(output_list)) THEN <<Head(output_list)>> ELSE <<>>)
         \o _strip_listing_to_done(Tail(output_list))

\* the values of the dict: the str '' of a row without values, or the
\* list a values_mapper made
EmptyValue == [list |-> FALSE, parts |-> <<>>]
ListValue(parts) == [list |-> TRUE, parts |-> parts]

\* values_mapper(values): by default lambda string: string.split('\t');
\* "wrap" stands for a caller's mapper, lambda string: [string]
ApplyMapper(values_mapper, values) ==
    IF values_mapper = "None" THEN ListValue(SplitTabs(values))
    ELSE ListValue(<<values>>)

\* ret[k] = v
DictPut(d, k, v) == {p \in d : p[1] # k} \cup {<<k, v>>}

RowStep_NoExcept(d, row, values_mapper) ==
    LET parts == SplitTabOnce(row)
    IN  IF Len(parts) # 2
        THEN [raised |-> TRUE, ret |-> d]
        ELSE [raised |-> FALSE,
              ret |-> DictPut(d, parts[1], ApplyMapper(values_mapper, parts[2]))]

\* one pass of the body of `for row in data_rows:`
\*   try: key, values = row.split('\t', 1)
\*   except ValueError: ret[row] = ''; continue
\*   ret[key] = values_mapper(values)
RowStep(d, row, values_mapper) ==
    LET parts == SplitTabOnce(row)
    IN  IF Len(parts) # 2
        THEN [raised |-> FALSE, ret |-> DictPut(d, row, EmptyValue)]
        ELSE [raised |-> FALSE,
              ret |-> DictPut(d, parts[1], ApplyMapper(values_mapper, parts[2]))]

\* data_rows = _strip_listing_to_done(cmdoutput.splitlines())
DataRows(cmdoutput) == _strip_listing_to_done(SplitLines(cmdoutput))

\* _output_to_dict is entered: ret = {}
OutputToDictEnter ==
    /\ parsePc = "idle"
    /\ parsePc' = IF DataRows(listingText) = <<>> THEN "done" ELSE "loop"
    /\ rowIdx' = 0
    /\ parsed' = {}
    /\ UNCHANGED <<brokerVars, stateVars, clientVars, formatVars, listingText,
                   valuesMapper, raceVars>>

\* the loop of _output_to_dict handles its next row
OutputToDictRow ==
    /\ parsePc = "loop"
    /\ LET rows == DataRows(listingText)
           r == RowStep(parsed, rows[rowIdx + 1], valuesMapper)
       IN  /\ rowIdx' = rowIdx + 1
           /\ parsed' = r.ret
           /\ parsePc' = IF r.raised THEN "raised"
                         ELSE IF rowIdx + 1 = Len(rows) THEN "done" ELSE "loop"
    /\ UNCHANGED <<brokerVars, stateVars, clientVars, formatVars, listingText,
                   valuesMapper, raceVars>>

InitParse ==
    /\ exchanges = {} /\ queues = {} /\ bindings = <<>>
    /\ IdleState /\ IdleClient /\ IdleFormat /\ IdleRace
    /\ listingText \in ParseInputs
    /\ valuesMapper \in {"None", "wrap"}
    /\ parsePc = "idle"
    /\ rowIdx = 0
    /\ parsed = {}

NextParse == OutputToDictEnter \/ OutputToDictRow

SpecParse == InitParse /\ [][NextParse]_vars

\* a row the parser is to skip: a 'Listing ...' header, a row with
\* '...done' in it, a row that starts with 'WARNING:'
IsNoiseRow(l) ==
    \/ /\ Len(l) >= 7
       /\ SubSeq(l, 1, 7) = <<"L", "i", "s", "t", "i", "n", "g">>
       /\ SubSeq(l, Len(l) - 2, Len(l)) = <<".", ".", ".">>
    \/ \E i \in 1..(Len(l) - 6) :
          SubSeq(l, i, i + 6) = <<".", ".", ".", "d", "o", "n", "e">>
    \/ /\ Len(l) >= 8
       /\ SubSeq(l, 1, 8) = <<"W", "A", "R", "N", "I", "N", "G", ":">>

IsRetainedRow(l) == ~IsNoiseRow(l)

RetainedRows == SelectSeq(SplitLines(listingText), IsRetainedRow)

TabsOf(row) == {i \in 1..Len(row) : row[i] = TAB}

\* the key a retained row stands for: the row itself when it has no tab,
\* the text before its first tab otherwise
KeyOfRow(row) ==
    IF TabsOf(row) = {} THEN row ELSE SubSeq(row, 1, MinOf(TabsOf(row)) - 1)

RestOfRow(row) == SubSeq(row, MinOf(TabsOf(row)) + 1, Len(row))

\* the value a retained row stands for: '' when it has no tab, else
\* values_mapper(rest), which by default is rest split on tabs
ValueOfRow(row) ==
    IF TabsOf(row) = {} THEN [list |-> FALSE, parts |-> <<>>]
    ELSE [list |-> TRUE,
          parts |-> IF valuesMapper = "None" THEN SplitTabs(RestOfRow(row))
                    ELSE <<RestOfRow(row)>>]

\* C10 (as amended): _output_to_dict never raises on a row without a tab;
\* the keys of its dict are the keys of the retained rows, and each key
\* has the value of the last retained row with that key: '' when that
\* row has no tab, values_mapper(rest) when it is 'k<TAB>rest' (by default
\* rest split on tabs).  'Listing ...' headers, rows with '...done' and
\* rows that start with 'WARNING:' contribute no key.
C10_OutputToDict ==
    /\ parsePc # "raised"
    /\ parsePc \in {"loop", "done"} =>
          LET rows == RetainedRows
          IN  /\ rowIdx <= Len(rows)
              /\ parsePc = "done" <=> rowIdx = Len(rows)
              /\ {p[1] : p \in parsed} = {KeyOfRow(rows[i]) : i \in 1..rowIdx}
              /\ \A i \in 1..rowIdx :
                    (\A j \in (i + 1)..rowIdx : KeyOfRow(rows[j]) # KeyOfRow(rows[i]))
                        => <<KeyOfRow(rows[i]), ValueOfRow(rows[i])>> \in parsed

\* C10 (as claimed): for every listing output, each retained row without
\* a tab, r, maps key r to '' and each retained row 'k<TAB>rest' maps k
\* to values_mapper(rest) in the dict _output_to_dict returns.
C10_EveryRowMapsItsKey ==
    parsePc = "done" =>
        \A i \in 1..Len(RetainedRows) :
            <<KeyOfRow(RetainedRows[i]), ValueOfRow(RetainedRows[i])>> \in parsed

C10_Witness ==
    /\ parsePc = "done"
    /\ listingText = sListing \o sDots \o <<NL, "/">>
    /\ parsed = {<< <<"/">>, EmptyValue >>}

(***************************************************************************)
(* Interleaved invocations (specification SpecRace): two callers run       *)
(* present/absent against one broker, and another actor declares and       *)
(* deletes with rabbitmqadmin on its own.  An invocation's existence       *)
(* query and its add/delete are two separate commands, so the steps of     *)
(* the other parties may fall between them.                                *)
(***************************************************************************)
\* the invocations the callers draw from: one exchange, one queue and one
\* binding identity, so that the callers meet on the same entity
RaceCalls ==
    {c \in StateCalls :
        \/ c.kind \in {"exchange", "queue"} /\ c.name = "orders" /\ c.vhost = "/"
        \/ /\ c.kind = "binding" /\ c.arguments = NoArguments
           /\ c.name = BaseId.source /\ c.destination = BaseId.destination
           /\ c.destination_type = BaseId.destination_type
           /\ c.routing_key = BaseId.routing_key /\ c.vhost = BaseId.vhost}

\* the add (present) or delete (absent) call of an invocation
MutateFn(c) == IF c.fn = "present" THEN AddFn(c.kind) ELSE DeleteFn(c.kind)

\* the callers, other than p, that have queried and not yet mutated: a
\* mutation made now falls between their query and their add/delete
Overtaken(p) ==
    [q \in Callers |-> IF q # p /\ inv[q].pc = "mutate" THEN TRUE ELSE touched[q]]

\* caller p enters present/absent: result record, existence query, and
\* the early return when there is nothing to do or the run is a dry run
RaceInvoke(p, c) ==
    /\ inv[p].pc = "idle"
    /\ \E ok \in BOOLEAN :
         LET q == ExistsQuery(c, ok)
             next == IF q.raised THEN "raised" ELSE AfterCheck(c, q.value, test)
         IN  inv' = [inv EXCEPT ![p] =
                        [pc |-> next,
                         call |-> c,
                         existsRes |-> IF q.raised THEN PyNone ELSE q.value,
                         ret |-> IF q.raised THEN InitRet(c.name)
                                 ELSE IF NothingToDo(c, q.value) THEN NoChangeRet(c)
                                 ELSE IF next = "returned" THEN DryRunRet(c)
                                 ELSE InitRet(c.name),
                         log |-> <<ExistsFn(c)>>]]
    /\ touched' = [touched EXCEPT ![p] = FALSE]
    /\ UNCHANGED <<brokerVars, stateVars, clientVars, formatVars, parseVars,
                   atMutation>>

\* caller p goes on to its add/delete call: no second existence query
\* stands between `if not __opts__['test']:` and the call
RaceMutate(p) ==
    /\ inv[p].pc = "mutate"
    /\ \E ok \in BOOLEAN :
         LET c == inv[p].call
             m == IF c.fn = "present" THEN AddCall(c, ok)
                  ELSE DeleteCall(c, inv[p].existsRes, ok)
         IN  /\ exchanges' = m.exchanges
             /\ queues' = m.queues
             /\ bindings' = m.bindings
             /\ inv' = [inv EXCEPT ![p] =
                          [pc |-> IF m.result.raised THEN "raised" ELSE "returned",
                           call |-> c,
                           existsRes |-> inv[p].existsRes,
                           ret |-> IF m.result.raised THEN inv[p].ret
                                   ELSE MutatedRet(c, m.result.value),
                           log |-> Append(inv[p].log, MutateFn(c))]]
    /\ atMutation' = [atMutation EXCEPT ![p] =
                         IF EntityExists(inv[p].call) THEN "existed" ELSE "missing"]
    /\ touched' = Overtaken(p)
    /\ UNCHANGED <<stateVars, clientVars, formatVars, parseVars>>

\* caller p's invocation is over (it returned its record, or raised)
RaceFinish(p) ==
    /\ inv[p].pc \in {"returned", "raised"}
    /\ inv' = [inv EXCEPT ![p].pc = "done"]
    /\ UNCHANGED <<brokerVars, stateVars, clientVars, formatVars, parseVars,
                   atMutation, touched>>

\* another actor: rabbitmqadmin declare exchange|queue, accepted by the broker
ActorDeclare(kind, name, vhost) ==
    /\ LET b == CmdRunDeclare(kind, name, vhost, TRUE)
       IN  exchanges' = b.exchanges /\ queues' = b.queues /\ bindings' = b.bindings
    /\ touched' = [q \in Callers |-> inv[q].pc = "mutate" \/ touched[q]]
    /\ UNCHANGED <<stateVars, clientVars, formatVars, parseVars, inv, atMutation>>

\* another actor: rabbitmqadmin delete exchange|queue, accepted by the broker
ActorDelete(kind, name, vhost) ==
    /\ LET b == CmdRunDelete(kind, name, vhost, TRUE)
       IN  exchanges' = b.exchanges /\ queues' = b.queues /\ bindings' = b.bindings
    /\ touched' = [q \in Callers |-> inv[q].pc = "mutate" \/ touched[q]]
    /\ UNCHANGED <<stateVars, clientVars, formatVars, parseVars, inv, atMutation>>

InitRace ==
    /\ \E b \in InitBrokers :
         exchanges = b.exchanges /\ queues = b.queues /\ bindings = b.bindings
    /\ test \in BOOLEAN
    /\ pc = "idle" /\ call = NoCall /\ existsRes = PyNone /\ ret = NoRet
    /\ log = <<>> /\ prev = NoPrev /\ ncalls = 0 /\ cmdRes = <<>>
    /\ IdleClient /\ IdleFormat /\ IdleParse /\ IdleRace

NextRace ==
    \/ \E p \in Callers, c \in RaceCalls : RaceInvoke(p, c)
    \/ \E p \in Callers : RaceMutate(p)
    \/ \E p \in Callers : RaceFinish(p)
    \/ \E kind \in {"exchange", "queue"} : ActorDeclare(kind, "orders", "/")
    \/ \E kind \in {"exchange", "queue"} : ActorDelete(kind, "orders", "/")

SpecRace == InitRace /\ [][NextRace]_vars

\* C12: check-then-act.  An invocation decides from its one existence
\* query and goes on to its add/delete without a second query, whatever
\* the other parties did to the broker in between; when no other party
\* mutated between the query and the add/delete, add is invoked only on
\* an entity the broker does not hold and delete only on one it holds.
C12_CheckThenAct ==
    [][\A p \in Callers :
          (inv[p].pc = "mutate" /\ inv'[p].pc # "mutate") =>
              LET c == inv[p].call
              IN  /\ inv[p].log = <<ExistsFn(c)>>
                  /\ ~test
                  /\ Truthy(inv[p].existsRes) = (c.fn = "absent")
                  /\ inv'[p].log = <<ExistsFn(c), MutateFn(c)>>
                  /\ ~touched[p] => (EntityExists(c) = (c.fn = "absent"))]_vars

\* present invoked add_exchange on an exchange that was there at that
\* moment, and absent invoked delete_queue on a queue already gone
C12_Witness ==
    /\ inv["a"].call.fn = "present" /\ inv["a"].call.kind = "exchange"
    /\ inv["a"].log = <<"exchange_exists", "add_exchange">>
    /\ atMutation["a"] = "existed"
    /\ inv["b"].call.fn = "absent" /\ inv["b"].call.kind = "queue"
    /\ inv["b"].log = <<"queue_exists", "delete_queue">>
    /\ atMutation["b"] = "missing"

\* two interleaved present calls for the same missing queue both invoked
\* add_queue, with no other actor in between
BothInvokedAdd ==
    /\ inv["a"].call = inv["b"].call
    /\ inv["a"].call.fn = "present" /\ inv["a"].call.kind = "queue"
    /\ inv["a"].log = <<"queue_exists", "add_queue">>
    /\ inv["b"].log = <<"queue_exists", "add_queue">>
    /\ atMutation["a"] = "missing" /\ atMutation["b"] = "existed"
    /\ touched = [p \in Callers |-> p = "b"]

(***************************************************************************)
(* The binding functions over arbitrary listings (specification            *)
(* SpecListing): `rabbitmqadmin list bindings` is drawn from the listings  *)
(* of at most MaxListing records, whose properties_key is whatever the     *)
(* server sent, the empty string included                                  *)
(***************************************************************************)
\* the identity that differs from BaseId in its routing key
EmptyKeyId == [BaseId EXCEPT !.routing_key = ""]

\* item of the listing: the fields the client reads, with properties_key k
ListedBinding(id, k) ==
    [source |-> id.source, destination |-> id.destination,
     destination_type |-> id.destination_type, routing_key |-> id.routing_key,
     vhost |-> id.vhost, arguments |-> {}, properties_key |-> k]

ListedBindings ==
    {ListedBinding(BaseId, k) : k \in {"", "rk"}}
    \cup {ListedBinding(EmptyKeyId, k) : k \in {"", "~"}}

Listings == UNION {[1..n -> ListedBindings] : n \in 0..MaxListing}

\* present/absent of the two identities the listings are about
ListingCalls ==
    {c \in StateCalls :
        /\ c.kind = "binding" /\ c.arguments = NoArguments
        /\ c.name = BaseId.source /\ c.destination = BaseId.destination
        /\ c.destination_type = BaseId.destination_type
        /\ c.routing_key \in {BaseId.routing_key, EmptyKeyId.routing_key}
        /\ c.vhost = BaseId.vhost}

InitListing ==
    /\ exchanges = {} /\ queues = {}
    /\ bindings \in Listings
    /\ test \in BOOLEAN
    /\ pc = "idle" /\ call = NoCall /\ existsRes = PyNone /\ ret = NoRet
    /\ log = <<>> /\ prev = NoPrev /\ ncalls = 0 /\ cmdRes = <<>>
    /\ IdleClient /\ IdleFormat /\ IdleParse /\ IdleRace

NextListing ==
    \/ \E c \in ListingCalls : Invoke(c)
    \/ Mutate
    \/ Finish

SpecListing == InitListing /\ [][NextListing]_vars

\* absent returned at once with 'Binding ... not exists.' and changes {}
ReportedNotExists == pc = "returned" /\ ret = NoChangeRet(call)

\* C13 (as claimed): the no-op decision of binding absent agrees with
\* binding_exists: for every listing, absent reports 'not exists' with
\* changes {} (and invokes no delete) iff binding_exists returns False for
\* the same identity; a matching binding whose properties_key is the empty
\* string is treated as existing and, outside dry-run, is deleted.
C13_AbsentAgreesWithBindingExists ==
    (QueryAnswered /\ call.kind = "binding" /\ call.fn = "absent") =>
        LET exists == binding_exists(call.name, call.destination,
                                     call.destination_type, call.routing_key,
                                     call.vhost, TRUE).value
        IN  /\ ReportedNotExists <=> (exists = PyBool(FALSE))
            /\ (exists = PyBool(TRUE) /\ ~test) => pc = "mutate"

====
